---- MODULE Spec2Model ----
(***************************************************************************)
(* Model of src/index.ts: the github-stats-viewer command.                 *)
(*                                                                         *)
(* One invocation of the command action (index.ts:116-131) is a single     *)
(* thread of control that suspends at its two awaits.  The remote service  *)
(* is the environment: each request is answered by an HTTP response (any   *)
(* status, any body) or by no response at all.  Values decoded from a      *)
(* response body are not validated by the program (response.data is        *)
(* returned as is, index.ts:32 and :44), so a body of the wrong shape      *)
(* reaches the renderers.                                                  *)
(*                                                                         *)
(* Strings the program cuts (repository descriptions) are sequences of     *)
(* one-character strings; optional JSON fields are records                 *)
(* [some |-> BOOLEAN, v |-> value] (some = FALSE is null/absent).          *)
(***************************************************************************)
EXTENDS Integers, Sequences, FiniteSets, TLC

\* ------------------------------------------------------------------ bounds
\* Largest number of repositories the remote account owns.
MaxActualRepos == 7
\* Longest repository description the remote account holds.
MaxDescLen == 29

\* ------------------------------------------------------- program constants
\* per_page=5 of the repositories query.
PerPage == 5
\* substring(0, 27) and length > 27.
DescLimit == 27
\* error.response?.status === 404
HttpNotFound == 404
\* process.exit(1)
ExitFailure == 1
\* exit code of a process whose event loop drains without process.exit.
ExitSuccess == 0
\* exitCode while the process is still running.
Running == -1

\* ---------------------------------------------------------------- inputs
Usernames == {"octocat", "ghost"}

Alphabet == <<"a", "b", "c">>

None == [some |-> FALSE, v |-> <<>>]
Some(x) == [some |-> TRUE, v |-> x]

Min(a, b) == IF a < b THEN a ELSE b

\* A description of the given length whose characters differ by position.
DescText(len, k) == [i \in 1..len |-> Alphabet[((i + k) % 3) + 1]]

\* Kinds of repository held by the remote: kind 0 has no description,
\* kind k > 0 a description of k - 1 characters (kind 1: the empty string).
NumRepoKinds == MaxDescLen + 2

RepoOfKind(k) ==
    [ name             |-> k,
      description      |-> IF k = 0 THEN None ELSE Some(DescText(k - 1, k)),
      html_url         |-> k,
      stargazers_count |-> k,
      forks_count      |-> k % 3,
      language         |-> IF k % 2 = 0 THEN None ELSE Some(<<"TypeScript">>) ]

\* The account's repositories, most recently updated first.
RepoList(n, s) == [i \in 1..n |-> RepoOfKind((s + i - 1) % NumRepoKinds)]

RepoLists == { RepoList(n, s) : n \in 0..MaxActualRepos, s \in 0..(NumRepoKinds - 1) }

\* interface GitHubUser
UserObject(login, name, bio) ==
    [ kind         |-> "object",
      login        |-> login,
      name         |-> name,
      bio          |-> bio,
      html_url     |-> <<"https://github.com/", login>>,
      created_at   |-> [date |-> "2011-01-25", time |-> "18:44:36Z"],
      public_repos |-> 8,
      followers    |-> 3,
      following    |-> 9 ]

\* A response body that decodes to null.
NullUser == [UserObject("", None, None) EXCEPT !.kind = "null"]

Profiles(login) ==
    { UserObject(login, n, b) : n \in {None, Some(<<"The Octocat">>)},
                                b \in {None, Some(<<>>), Some(<<"bio">>)} }

\* interface GitHubRepo[] as decoded: an array, null, or a non-array object.
ArrayBody(items) == [kind |-> "array", items |-> items]
NullBody == [kind |-> "null", items |-> <<>>]
ObjectBody == [kind |-> "object", items |-> <<>>]

\* ------------------------------------------------------------ the remote
\* What the remote service sends for one request: an HTTP response with a
\* status and a decoded body, or nothing (status 0: no response arrived).
NoResponse == 0
ErrorStatuses == {403, HttpNotFound, 500}

UserReply(status, body) == [status |-> status, body |-> body]
RepoReply(status, body) == [status |-> status, body |-> body]

\* The first n entries of a list.
FirstN(list, n) == SubSeq(list, 1, Min(n, Len(list)))

\* The answers the remote may give to GET /users/{username}.
UserReplies(profile) ==
    { UserReply(200, profile), UserReply(200, NullUser) }
      \cup { UserReply(st, NullUser) : st \in ErrorStatuses \cup {NoResponse} }

\* The answers the remote may give to GET /users/{username}/repos?...: the
\* page the query asks for, the whole list (per_page ignored), a body that is
\* no array, an error status, or no response.
RepoReplies(repos, request) ==
    { RepoReply(200, ArrayBody(FirstN(repos, request.per_page))),
      RepoReply(200, ArrayBody(repos)),
      RepoReply(200, NullBody),
      RepoReply(200, ObjectBody) }
      \cup { RepoReply(st, NullBody) : st \in ErrorStatuses \cup {NoResponse} }

\* ------------------------------------------------------------ the fetcher
\* JS truthiness of an optional string: null, undefined and "" are falsy.
Truthy(opt) == opt.some /\ opt.v # <<>>

\* axios.get: resolves with the response of a 2xx status, rejects with an
\* AxiosError carrying the response (if any) otherwise.
AxiosGet(reply) ==
    IF reply.status >= 200 /\ reply.status < 300
    THEN [rejected |-> FALSE, data |-> reply.body,
          isAxiosError |-> FALSE, hasResponse |-> TRUE, status |-> reply.status]
    ELSE [rejected |-> TRUE, data |-> reply.body,
          isAxiosError |-> TRUE, hasResponse |-> reply.status # NoResponse,
          status |-> reply.status]

\* new Error(message): the message as the pieces of its template literal.
NoError == [message |-> <<>>]
Error(message) == [message |-> message]

UserRequest(username) ==
    [endpoint |-> "users", username |-> username, sort |-> "", per_page |-> 0]

\* Variant: the query asks for a page of 10.
ReposRequest_PerPage10(username) ==
    [endpoint |-> "repos", username |-> username, sort |-> "updated",
     per_page |-> 2 * PerPage]

ReposRequest(username) ==
    [endpoint |-> "repos", username |-> username, sort |-> "updated",
     per_page |-> PerPage]

\* Variant: the 404 case is not told apart.
UserDataError_Generic(username, res) ==
    Error(<<"Failed to fetch user data from GitHub API">>)

\* The catch clause of fetchUserData: which error is thrown for a rejection.
UserDataError(username, res) ==
    IF res.isAxiosError /\ res.hasResponse /\ res.status = HttpNotFound
    THEN Error(<<"User '", username, "' not found on GitHub">>)
    ELSE Error(<<"Failed to fetch user data from GitHub API">>)

\* fetchUserData(username) given the remote's reply.
fetchUserData(username, reply) ==
    LET res == AxiosGet(reply)
    IN  IF res.rejected
        THEN [threw |-> TRUE, data |-> NullUser, error |-> UserDataError(username, res)]
        ELSE [threw |-> FALSE, data |-> res.data, error |-> NoError]

\* Variant: the repositories fetch tells 404 apart as the profile fetch does.
UserReposError_Symmetric(username, res) ==
    IF res.isAxiosError /\ res.hasResponse /\ res.status = HttpNotFound
    THEN Error(<<"User '", username, "' not found on GitHub">>)
    ELSE Error(<<"Failed to fetch repository data from GitHub API">>)

\* The catch clause of fetchUserRepos.
UserReposError(username, res) ==
    Error(<<"Failed to fetch repository data from GitHub API">>)

\* fetchUserRepos(username) given the remote's reply.
fetchUserRepos(username, reply) ==
    LET res == AxiosGet(reply)
    IN  IF res.rejected
        THEN [threw |-> TRUE, data |-> NullBody, error |-> UserReposError(username, res)]
        ELSE [threw |-> FALSE, data |-> res.data, error |-> NoError]

\* ----------------------------------------------------------- the renderer
\* One console.log call: who wrote it, its text, and the rows when it is a table.
Line(by, kind, text) == [by |-> by, kind |-> kind, text |-> text, rows |-> <<>>]
TableLine(by, rows) == [by |-> by, kind |-> "table", text |-> <<>>, rows |-> rows]

\* new Date(created_at).toLocaleDateString(): the calendar date, no time of day.
ToLocaleDateString(created_at) == created_at.date

\* displayUserInfo(userData): the lines written, and whether it threw.  Reading
\* a property of null throws a TypeError after the heading has been written.
displayUserInfo(userData) ==
    LET by == "displayUserInfo"
        heading == <<Line(by, "heading", <<"\nUser Information:">>)>>
    IN  IF userData.kind = "null"
        THEN [lines |-> heading, threw |-> TRUE,
              error |-> Error(<<"Cannot read properties of null (reading 'login')">>)]
        ELSE [lines |->
                heading
                \o <<Line(by, "username", <<"Username: ", userData.login>>)>>
                \o (IF Truthy(userData.name)
                    THEN <<Line(by, "name", <<"Name: ">> \o userData.name.v)>>
                    ELSE <<>>)
                \o (IF Truthy(userData.bio)
                    THEN <<Line(by, "bio", <<"Bio: ">> \o userData.bio.v)>>
                    ELSE <<>>)
                \o <<Line(by, "url", <<"Profile URL: ">> \o userData.html_url),
                     Line(by, "created",
                          <<"Account Created: ", ToLocaleDateString(userData.created_at)>>),
                     Line(by, "heading", <<"\nStats:">>),
                     Line(by, "public_repos",
                          <<"Public Repositories: ", userData.public_repos>>),
                     Line(by, "followers", <<"Followers: ", userData.followers>>),
                     Line(by, "following", <<"Following: ", userData.following>>)>>,
              threw |-> FALSE, error |-> NoError]

Ellipsis == <<".", ".", ".">>

\* description.substring(0, 27)
Substring27(d) == SubSeq(d, 1, Min(DescLimit, Len(d)))

\* Variant: the ellipsis is appended from 27 characters on.
DescriptionCell_OffByOne(description) ==
    IF Truthy(description)
    THEN Substring27(description.v)
         \o (IF Len(description.v) >= DescLimit THEN Ellipsis ELSE <<>>)
    ELSE <<>>

\* The description cell of a table row (index.ts:93).
DescriptionCell(description) ==
    IF Truthy(description)
    THEN Substring27(description.v)
         \o (IF Len(description.v) > DescLimit THEN Ellipsis ELSE <<>>)
    ELSE <<>>

\* repo.language || 'N/A'
LanguageCell(language) == IF Truthy(language) THEN language.v ELSE <<"N/A">>

\* The row pushed for one repository.
TableRow(repo) ==
    [ name        |-> repo.name,
      description |-> DescriptionCell(repo.description),
      stars       |-> repo.stargazers_count,
      forks       |-> repo.forks_count,
      language    |-> LanguageCell(repo.language) ]

\* repos.forEach(repo => table.push([...]))
TableRows(items) == [i \in 1..Len(items) |-> TableRow(items[i])]

\* Variant: the emptiness test is inverted.
IsEmptyList_Inverted(items) == Len(items) # 0

\* repos.length === 0 for an array.
IsEmptyList(items) == Len(items) = 0

\* displayRepoInfo(repos): the lines written, and whether it threw.  null has
\* no length (TypeError before any line); a non-array object has an undefined
\* length, so the heading is written and repos.forEach is not a function.
displayRepoInfo(repos) ==
    LET by == "displayRepoInfo"
        heading == Line(by, "heading", <<"\nTop 5 Repositories:">>)
    IN  CASE repos.kind = "null" ->
               [lines |-> <<>>, threw |-> TRUE,
                error |-> Error(<<"Cannot read properties of null (reading 'length')">>)]
          [] repos.kind = "object" ->
               [lines |-> <<heading>>, threw |-> TRUE,
                error |-> Error(<<"repos.forEach is not a function">>)]
          [] OTHER ->
               IF IsEmptyList(repos.items)
               THEN [lines |-> <<Line(by, "notice", <<"\nNo repositories found.">>)>>,
                     threw |-> FALSE, error |-> NoError]
               ELSE [lines |-> <<heading, TableLine(by, TableRows(repos.items))>>,
                     threw |-> FALSE, error |-> NoError]

\* ------------------------------------------------------ the command driver
VARIABLES
    pc,            \* position of the action callback
    argv,          \* the <username> argument of the invocation
    remoteProfile, \* the profile the remote service holds for the account
    remoteRepos,   \* the repositories the remote service holds, newest first
    requests,      \* the GET requests issued so far
    userReplies,   \* the replies received to the profile request
    repoReplies,   \* the replies received to the repositories request
    userData,      \* const userData
    userRepos,     \* const userRepos
    error,         \* the error caught by the catch clause
    spinner,       \* the ora indicator: its state and text
    events,        \* the calls the driver has made, in order
    output,        \* the lines written by console.log
    exitCode       \* the process exit code, Running until it exits

vars == <<pc, argv, remoteProfile, remoteRepos, requests, userReplies, repoReplies,
          userData, userRepos, error, spinner, events, output, exitCode>>

Event(ev, threw) == [ev |-> ev, threw |-> threw]

\* Variant: the profile is rendered before the indicator is stopped.
NextStatement_RenderFirst(stmt) ==
    CASE stmt = "fetchUserData"   -> "fetchUserRepos"
      [] stmt = "fetchUserRepos"  -> "displayUserInfo"
      [] stmt = "displayUserInfo" -> "spinner.succeed"
      [] stmt = "spinner.succeed" -> "displayRepoInfo"
      [] stmt = "displayRepoInfo" -> "return"

\* The statements of the try block, in program order; "return" is its end.
NextStatement(stmt) ==
    CASE stmt = "fetchUserData"   -> "fetchUserRepos"
      [] stmt = "fetchUserRepos"  -> "spinner.succeed"
      [] stmt = "spinner.succeed" -> "displayUserInfo"
      [] stmt = "displayUserInfo" -> "displayRepoInfo"
      [] stmt = "displayRepoInfo" -> "return"

\* Variant: a thrown error is swallowed and the next statement runs.
TryStep_IgnoresThrow(stmt, threw) == NextStatement(stmt)

\* try { ... } catch: a statement that throws transfers control to the catch
\* clause, one that completes is followed by the next statement.
TryStep(stmt, threw) == IF threw THEN "catch" ELSE NextStatement(stmt)

Init ==
    /\ pc = "run"
    /\ argv \in Usernames
    /\ remoteProfile \in Profiles(argv)
    /\ remoteRepos \in RepoLists
    /\ requests = <<>>
    /\ userReplies = <<>>
    /\ repoReplies = <<>>
    /\ userData = NullUser
    /\ userRepos = NullBody
    /\ error = NoError
    /\ spinner = [state |-> "idle", text |-> <<>>]
    /\ events = <<>>
    /\ output = <<>>
    /\ exitCode = Running

\* run(): the banner, program.parse(process.argv), and the start of the
\* action callback up to its first await (the profile request is issued).
Run ==
    /\ pc = "run"
    /\ output' = Append(output, Line("run", "banner", <<"GitHub Stats">>))
    /\ spinner' = [state |-> "spinning", text |-> <<"Fetching GitHub data...">>]
    /\ requests' = Append(requests, UserRequest(argv))
    /\ events' = events \o <<Event("spinner.start", FALSE), Event("fetchUserData", FALSE)>>
    /\ pc' = "await fetchUserData"
    /\ UNCHANGED <<argv, remoteProfile, remoteRepos, userReplies, repoReplies,
                   userData, userRepos, error, exitCode>>

\* The profile request settles.  When it resolves, the callback goes on to
\* its second await: the repositories request is issued.
SettleUserData ==
    /\ pc = "await fetchUserData"
    /\ \E reply \in UserReplies(remoteProfile) :
          LET r == fetchUserData(argv, reply)
              next == TryStep("fetchUserData", r.threw)
          IN  /\ userReplies' = Append(userReplies, reply)
              /\ userData' = r.data
              /\ error' = r.error
              /\ IF next = "fetchUserRepos"
                 THEN /\ requests' = Append(requests, ReposRequest(argv))
                      /\ events' = events \o <<Event("fetchUserData.settled", r.threw),
                                               Event("fetchUserRepos", FALSE)>>
                      /\ pc' = "await fetchUserRepos"
                 ELSE /\ requests' = requests
                      /\ events' = Append(events, Event("fetchUserData.settled", r.threw))
                      /\ pc' = next
    /\ UNCHANGED <<argv, remoteProfile, remoteRepos, repoReplies, userRepos,
                   spinner, output, exitCode>>

\* The repositories request settles.
SettleUserRepos ==
    /\ pc = "await fetchUserRepos"
    /\ \E reply \in RepoReplies(remoteRepos, requests[Len(requests)]) :
          LET r == fetchUserRepos(argv, reply)
          IN  /\ repoReplies' = Append(repoReplies, reply)
              /\ userRepos' = r.data
              /\ error' = r.error
              /\ events' = Append(events, Event("fetchUserRepos.settled", r.threw))
              /\ pc' = TryStep("fetchUserRepos", r.threw)
    /\ UNCHANGED <<argv, remoteProfile, remoteRepos, requests, userReplies, userData,
                   spinner, output, exitCode>>

\* spinner.succeed('Data fetched successfully!')
SpinnerSucceed ==
    /\ pc = "spinner.succeed"
    /\ spinner' = [state |-> "succeeded", text |-> <<"Data fetched successfully!">>]
    /\ events' = Append(events, Event("spinner.succeed", FALSE))
    /\ pc' = TryStep("spinner.succeed", FALSE)
    /\ UNCHANGED <<argv, remoteProfile, remoteRepos, requests, userReplies, repoReplies,
                   userData, userRepos, error, output, exitCode>>

\* displayUserInfo(userData)
DisplayUserInfo ==
    /\ pc = "displayUserInfo"
    /\ LET r == displayUserInfo(userData)
       IN  /\ output' = output \o r.lines
           /\ error' = r.error
           /\ events' = Append(events, Event("displayUserInfo", r.threw))
           /\ pc' = TryStep("displayUserInfo", r.threw)
    /\ UNCHANGED <<argv, remoteProfile, remoteRepos, requests, userReplies, repoReplies,
                   userData, userRepos, spinner, exitCode>>

\* displayRepoInfo(userRepos)
DisplayRepoInfo ==
    /\ pc = "displayRepoInfo"
    /\ LET r == displayRepoInfo(userRepos)
       IN  /\ output' = output \o r.lines
           /\ error' = r.error
           /\ events' = Append(events, Event("displayRepoInfo", r.threw))
           /\ pc' = TryStep("displayRepoInfo", r.threw)
    /\ UNCHANGED <<argv, remoteProfile, remoteRepos, requests, userReplies, repoReplies,
                   userData, userRepos, spinner, exitCode>>

\* catch (error) { spinner.fail(error.message); process.exit(1); }
Catch ==
    /\ pc = "catch"
    /\ spinner' = [state |-> "failed", text |-> error.message]
    /\ events' = events \o <<Event("spinner.fail", FALSE), Event("process.exit", FALSE)>>
    /\ exitCode' = ExitFailure
    /\ pc' = "exited"
    /\ UNCHANGED <<argv, remoteProfile, remoteRepos, requests, userReplies, repoReplies,
                   userData, userRepos, error, output>>

\* The callback returns; nothing is pending and the process ends on its own.
Return ==
    /\ pc = "return"
    /\ exitCode' = ExitSuccess
    /\ pc' = "exited"
    /\ UNCHANGED <<argv, remoteProfile, remoteRepos, requests, userReplies, repoReplies,
                   userData, userRepos, error, spinner, events, output>>

Next ==
    \/ Run
    \/ SettleUserData
    \/ SettleUserRepos
    \/ SpinnerSucceed
    \/ DisplayUserInfo
    \/ DisplayRepoInfo
    \/ Catch
    \/ Return

Spec == Init /\ [][Next]_vars

\* ============================================================ properties
\* ---- helpers for the properties
Happened(ev) == \E i \in DOMAIN events : events[i].ev = ev
Threw(ev) == \E i \in DOMAIN events : events[i] = Event(ev, TRUE)
Completed(ev) == \E i \in DOMAIN events : events[i] = Event(ev, FALSE)
EventNames == [i \in DOMAIN events |-> events[i].ev]

RepoRequestCount == Cardinality({i \in DOMAIN requests : requests[i].endpoint = "repos"})

WrittenBy(fn) == SelectSeq(output, LAMBDA l : l.by = fn)
RenderedLines == SelectSeq(output, LAMBDA l : l.by \in {"displayUserInfo", "displayRepoInfo"})

\* The error kinds of the glossary, read off the message of the thrown Error.
IsNotFound(e) ==
    /\ Len(e.message) = 3
    /\ e.message[1] = "User '"
    /\ e.message[3] = "' not found on GitHub"
IsFetchFailure(e) ==
    /\ Len(e.message) = 1
    /\ e.message[1] \in {"Failed to fetch user data from GitHub API",
                         "Failed to fetch repository data from GitHub API"}

ProfileFetchFailed == Threw("fetchUserData.settled")
RepoFetchFailed == Threw("fetchUserRepos.settled")
FailedRun == pc = "exited" /\ spinner.state = "failed" /\ exitCode # 0

\* ---- C1
\* C1: if the profile fetch (fetchUserData) fails, the repository fetch is
\* never issued: the number of repository requests of the run stays 0, up to
\* and including the exit of the process.
C1_NoRepoFetchAfterProfileFailure ==
    ProfileFetchFailed => RepoRequestCount = 0 /\ ~Happened("fetchUserRepos")

C1_Witness ==
    pc = "exited" /\ ProfileFetchFailed /\ RepoRequestCount = 0

\* ---- C2
\* C2: in every run that ends with the failure marker and a non-zero exit,
\* neither displayUserInfo nor displayRepoInfo has written a line, whichever
\* step of the fetch/render sequence raised the error.
C2_NoPartialRenderingOnFailure ==
    FailedRun => RenderedLines = <<>>

\* ---- C3
\* C3: when the remote answers the profile request with 404, the driver stops
\* the indicator with an error message that contains the username and says it
\* was not found, and then exits with code 1.
ProfileAnswered404 == userReplies # <<>> /\ userReplies[1].status = 404

SaysNotFound(text, username) ==
    /\ \E i \in DOMAIN text : text[i] = username
    /\ \E i \in DOMAIN text : text[i] = "' not found on GitHub"

C3_NotFoundReported ==
    ProfileAnswered404 =>
        /\ pc \in {"catch", "exited"}
        /\ SaysNotFound(error.message, argv)
        /\ pc = "exited" =>
              /\ spinner.state = "failed"
              /\ SaysNotFound(spinner.text, argv)
              /\ exitCode = 1
              /\ SubSeq(EventNames, Len(events) - 1, Len(events))
                    = <<"spinner.fail", "process.exit">>

C3_Witness ==
    ProfileAnswered404 /\ pc = "exited" /\ exitCode = 1 /\ spinner.state = "failed"

\* ---- C4
\* C4: fetchUserData fails with NotFound exactly when the remote answers 404
\* and with FetchFailure for every other failed request; fetchUserRepos fails
\* with FetchFailure for every failed request, a 404 included, and never with
\* NotFound.
IsSuccessStatus(st) == st >= 200 /\ st < 300

C4_ErrorKindsAsymmetric ==
    /\ userReplies # <<>> =>
          LET st == userReplies[1].status
          IN  /\ ProfileFetchFailed <=> ~IsSuccessStatus(st)
              /\ (ProfileFetchFailed /\ IsNotFound(error)) <=> st = 404
              /\ (ProfileFetchFailed /\ IsFetchFailure(error))
                    <=> (~IsSuccessStatus(st) /\ st # 404)
    /\ repoReplies # <<>> =>
          LET st == repoReplies[1].status
          IN  /\ RepoFetchFailed <=> ~IsSuccessStatus(st)
              /\ RepoFetchFailed => IsFetchFailure(error) /\ ~IsNotFound(error)

C4_Witness ==
    /\ repoReplies # <<>>
    /\ repoReplies[1].status = 404
    /\ RepoFetchFailed
    /\ IsFetchFailure(error)

\* ---- C5
\* C5: the exit code is 0 when both fetches succeed and 1 when either fails:
\* a run exits with code 1 if and only if fetchUserData or fetchUserRepos
\* failed in that run.
C5_ExitOneIffFetchFailed ==
    pc = "exited" =>
        /\ exitCode = 1 <=> (ProfileFetchFailed \/ RepoFetchFailed)
        /\ exitCode = 0 <=> ~(ProfileFetchFailed \/ RepoFetchFailed)

\* ---- C6
TableLines == SelectSeq(output, LAMBDA l : l.kind = "table")

\* C6 as stated: the table has exactly min(5, count) rows and the sequence
\* that reaches the renderer never has more than 5 entries, whatever the
\* remote service returns.
C6_AtMostFiveWhateverRemote ==
    /\ (pc = "displayRepoInfo" /\ userRepos.kind = "array") => Len(userRepos.items) <= 5
    /\ \A i \in DOMAIN TableLines :
          Len(TableLines[i].rows) = Min(5, Len(userRepos.items))

\* The remote answered the repositories request with the page the query asked for.
RemoteHonouredPerPage ==
    /\ repoReplies # <<>>
    /\ repoReplies[1].status = 200
    /\ repoReplies[1].body = ArrayBody(FirstN(remoteRepos, requests[Len(requests)].per_page))

\* C6 amended: the table has exactly one row per entry of the list passed to
\* displayRepoInfo; when the remote honours the per_page parameter of the
\* query, that is min(5, number of repositories of the account) rows, never
\* more than 5.
C6_RowsFollowListAndQueryCap ==
    /\ \A i \in DOMAIN TableLines :
          /\ Len(TableLines[i].rows) = Len(userRepos.items)
          /\ RemoteHonouredPerPage =>
                Len(TableLines[i].rows) = Min(5, Len(remoteRepos))
    /\ (RemoteHonouredPerPage /\ pc = "displayRepoInfo") => Len(userRepos.items) <= 5

C6_Witness ==
    /\ RemoteHonouredPerPage
    /\ Len(remoteRepos) > 5
    /\ Len(TableLines) = 1
    /\ Len(TableLines[1].rows) = 5

\* ---- C7
\* C7: for every repository description d, the rendered cell is the first 27
\* characters of d followed by "..." if d is longer than 27; d itself if it
\* has 1 to 27 characters; the empty string if d is empty or absent.
CellAsClaimed(d, cell) ==
    /\ (d.some /\ Len(d.v) > 27) =>
          /\ Len(cell) = 30
          /\ \A j \in 1..27 : cell[j] = d.v[j]
          /\ \A j \in 28..30 : cell[j] = "."
    /\ (d.some /\ Len(d.v) >= 1 /\ Len(d.v) <= 27) => cell = d.v
    /\ (~d.some \/ Len(d.v) = 0) => cell = <<>>

C7_DescriptionCell ==
    \A i \in DOMAIN TableLines :
        \A r \in DOMAIN TableLines[i].rows :
            CellAsClaimed(userRepos.items[r].description, TableLines[i].rows[r].description)

C7_Witness ==
    /\ Len(TableLines) = 1
    /\ \E r \in DOMAIN userRepos.items :
          /\ Len(userRepos.items[r].description.v) = 28
          /\ Len(TableLines[1].rows[r].description) = 30
    /\ \E r \in DOMAIN userRepos.items :
          /\ Len(userRepos.items[r].description.v) = 27
          /\ Len(TableLines[1].rows[r].description) = 27
    /\ \E r \in DOMAIN userRepos.items :
          /\ ~userRepos.items[r].description.some
          /\ TableLines[1].rows[r].description = <<>>

\* ---- C8
\* C8: called with an empty sequence, displayRepoInfo writes only the single
\* "no repositories found" notice, no heading and no table; called with a
\* non-empty sequence, it writes the table and never the notice.
RepoLines == WrittenBy("displayRepoInfo")
CalledWithList == Happened("displayRepoInfo") /\ userRepos.kind = "array"

C8_NoticeOrTable ==
    /\ (CalledWithList /\ Len(userRepos.items) = 0) =>
          /\ Len(RepoLines) = 1
          /\ RepoLines[1].kind = "notice"
    /\ (CalledWithList /\ Len(userRepos.items) > 0) =>
          /\ \E i \in DOMAIN RepoLines : RepoLines[i].kind = "table"
          /\ \A i \in DOMAIN RepoLines : RepoLines[i].kind # "notice"

C8_Witness ==
    /\ CalledWithList
    /\ Len(userRepos.items) = 0
    /\ Len(RepoLines) = 1
    /\ RepoLines[1].kind = "notice"

\* ---- C9
SuccessfulRun == pc = "exited" /\ exitCode = 0

Before(a, b) ==
    \A j \in DOMAIN events :
        events[j].ev = b => \E i \in 1..(j - 1) : events[i] = Event(a, FALSE)

\* C9: in every successful run the driver's events occur in this order, each
\* once: indicator started, profile fetch, repository fetch (begun only after
\* the profile fetch completed successfully), indicator stopped with the
\* success marker, displayUserInfo, displayRepoInfo; no rendering happens
\* before both fetches have succeeded.
C9_SuccessfulRunOrder ==
    /\ SuccessfulRun =>
          /\ EventNames = <<"spinner.start",
                            "fetchUserData", "fetchUserData.settled",
                            "fetchUserRepos", "fetchUserRepos.settled",
                            "spinner.succeed", "displayUserInfo", "displayRepoInfo">>
          /\ \A i \in DOMAIN events : ~events[i].threw
    /\ Before("fetchUserData.settled", "fetchUserRepos")
    /\ Before("fetchUserData.settled", "displayUserInfo")
    /\ Before("fetchUserRepos.settled", "displayUserInfo")
    /\ Before("fetchUserRepos.settled", "displayRepoInfo")
    /\ RenderedLines # <<>> =>
          Completed("fetchUserData.settled") /\ Completed("fetchUserRepos.settled")

C9_Witness ==
    SuccessfulRun /\ Len(events) = 8 /\ Len(WrittenBy("displayRepoInfo")) > 0

\* ---- C10
\* C10: the end states Succeeded and Failed are terminal and mutually
\* exclusive: in no run is the indicator stopped with both the success marker
\* and the failure marker, and once either marker has been shown no fetch is
\* issued again.
C10_MarkersExclusiveNoRetry ==
    /\ ~(Happened("spinner.succeed") /\ Happened("spinner.fail"))
    /\ \A i, j \in DOMAIN events :
          (events[i].ev \in {"spinner.succeed", "spinner.fail"} /\ i < j)
             => events[j].ev \notin {"fetchUserData", "fetchUserRepos"}

====
